---- MODULE Spec2Model ----
(***************************************************************************)
(* Campaign scheduling and mutant-kill decision engine of                  *)
(* mutate-csharp-dafny.                                                    *)
(*                                                                         *)
(* The repository holds two variants of mutation_guided_test_generation:   *)
(*   src/fuzzing/run-fuzzer-campaign.py  (multi-backend, "campaign")       *)
(*   src/fuzzing/run-fuzz-d.py           (single backend, "fuzz-d")        *)
(* Spec      is the campaign variant's outer loop, statement by statement,  *)
(*           from the continuation check to the program claim of step 9.   *)
(*           That claim never succeeds (the directory is made at step 2),  *)
(*           so the per-mutant loop behind it is not part of Spec.         *)
(* SpecFuzzD is the per-mutant part of the loop, taken from the fuzz-d     *)
(*           variant (run-fuzz-d.py:333-478), which makes the program      *)
(*           directory once.  It starts where a runner holds a validated   *)
(*           and traced program at step 5, with every working set          *)
(*           surviving_mutants over the bounded mutants and every set of   *)
(*           kill claims already on disk; run-fuzz-d.py:234 itself leaves  *)
(*           the working set empty ("todo: update with candidates").       *)
(* SpecLoad  is the campaign variant from the trace load of step 10 on,    *)
(*           started where a runner holds the program directory and the    *)
(*           trace files of its traced compile.                            *)
(* SpecCall  is one call of one of the mutant-test functions (dafny.py,    *)
(*           steps 9-10 of run-fuzz-d.py, steps 14-17 of the campaign      *)
(*           variant) on arguments drawn from its bounded inputs.          *)
(*           The trace load of steps 10-12 and the registry cross-check    *)
(*           of startup are called the same way.                           *)
(* SpecFair  is Spec with time advancing and every runner taking its steps.*)
(* SpecSub   is one call of run_subprocess on a child of every behaviour;  *)
(*           SpecSubFair adds that time advances.                          *)
(* SpecScratch is one runner's loop as its scratch directories see it.     *)
(* SpecReduce is reducer/reduce-program.py run by concurrent processes.    *)
(* SpecClean is auto-delete-compilations.py watching the directory in      *)
(*           which campaign runners make their temporary directories.      *)
(* Several runner processes share one artifact directory; each action is   *)
(* the code between two external-process waits or filesystem operations.   *)
(***************************************************************************)
EXTENDS Integers, Sequences, FiniteSets, TLC

\* ------------------------------------------------------------- bounds
\* Seeds are drawn from 1..NumSeeds (the code draws from a 64-bit range).
NumSeeds == 2
\* Mutants are 1..NumMutants, all of one activation key.
NumMutants == 2
\* --test_campaign_timeout is 0..MaxBudgetHours hours.
MaxBudgetHours == 1
\* The wall clock advances in steps of TickSeconds up to MaxClock seconds.
TickSeconds == 3600
MaxClock == 3600
\* Lines of a trace file handed to reconstruct_trace_from_disk alone.
MaxLines == 2
\* A child of run_subprocess exits by itself after 0..MaxRunTime time units, or
\* never; the timeout handed to run_subprocess is 1..MaxSubTimeout units.
MaxRunTime == 3
\* Characters of a trace line handed to parse_recorded_trace alone.
MaxLineLen == 4
MaxSubTimeout == 2
\* The cleaner: RETENTION_TIME (600 seconds in the source) and the end of time, in
\* clock units.
RetentionTime == 2
MaxCleanClock == 4

\* ---------------------------------------------------------- constants
SecondsPerHour == 3600
\* COMPILATION_TIMEOUT_SCALE_FACTOR and EXECUTION_TIMEOUT_SCALE_FACTOR.
TimeoutScaleFactor == 3

Runners == {"r1", "r2"}
Seeds == 1..NumSeeds
Mutants == 1..NumMutants
NoRunner == "none"
NoSeed == 0
NoMutant == 0
NoSummary == [written |-> FALSE]

VARIABLES
    clock,        \* time.time() - test_campaign_start_time, in seconds
    budget,       \* test_campaign_budget_in_hours
    pc,           \* each runner's position in mutation_guided_test_generation
    seed,         \* fuzz_d_fuzzer_seed of the runner's current iteration
    surviving,    \* surviving_mutants of each runner
    killed,       \* killed_mutants of each runner
    testsDir,     \* tests/fuzzd_<seed>: the runner that created it, or NoRunner
    summary,      \* tests/fuzzd_<seed>/test-summary.json
    killDir,      \* killed_mutants/<key>-<id>: its creator, "regression", or NoRunner
    killInfo,     \* killed_mutants/<key>-<id>/kill_info.json: every write, in order
    errDir,       \* regular-compilation-errors/ and regular-wrong-code/ entries
    baseline,     \* verdict of the current iteration's baseline validation
    traces,       \* backends whose traced compile left a trace file
    covered,      \* mutants_covered_by_program
    cand,         \* candidate_mutants_for_program still to be visited
    cur,          \* the mutant under test
    skippedL,     \* mutants_skipped_by_program
    killedL,      \* mutants_killed_by_program
    survivedL,    \* mutants_covered_but_not_killed_by_program
    base,         \* default_execution_result of the current program
    hist,         \* history: what each runner did (never read by the actions)
    call,         \* a single call of one of the mutant-test functions: its arguments
    result        \* ... and what the call returned

vars == <<clock, budget, pc, seed, surviving, killed, testsDir, summary,
          killDir, killInfo, errDir, baseline, traces, covered, cand, cur,
          skippedL, killedL, survivedL, base, hist, call, result>>

\* The arguments and the result of a function called on its own.
callVars == <<call, result>>
NoCall == [fn |-> "none"]
NoResult == [status |-> "none"]

\* ------------------------------------------------------------ helpers
Range(s) == {s[i] : i \in 1..Len(s)}

Sorted(s) == SortSeq(s, LAMBDA a, b : a < b)

\* Every ordering of a finite set: list(set(...)) gives an arbitrary one.
Orderings(S) ==
    {s \in [1..Cardinality(S) -> S] : \A i, j \in 1..Cardinality(S) : i # j => s[i] # s[j]}


\* ------------------------------------------------- shared definitions
\* time_budget_exists: elapsed whole seconds against the budget in hours.
TimeBudgetExistsAtBoundary(elapsed, hours) == elapsed <= hours * SecondsPerHour

TimeBudgetExists(elapsed, hours) == elapsed < hours * SecondsPerHour

\* Path.mkdir() with exist_ok left False: succeeds only when the directory is absent.
MkdirExistOk(owner) == TRUE

MkdirSucceeds(owner) == owner = NoRunner

\* What run_subprocess can report for the generator: exit code, timeout, and
\* whether generated.dfy is on disk afterwards.
GenOutcomes == [exit : {0, 1}, timeout : BOOLEAN, file : BOOLEAN]

\* execute_fuzz_d of the campaign variant.
ExecuteFuzzDNoFileTest(o) == ~o.timeout /\ o.exit = 0

ExecuteFuzzD(o) == ~o.timeout /\ o.exit = 0 /\ o.file

Tick ==
    /\ clock + TickSeconds <= MaxClock
    /\ clock' = clock + TickSeconds
    /\ UNCHANGED <<budget, pc, seed, surviving, killed, testsDir, summary,
                   killDir, killInfo, errDir, baseline, traces, covered, cand, cur,
                   skippedL, killedL, survivedL, base, hist>>
    /\ UNCHANGED callVars

\* The per-mutant working state of a runner, untouched outside the per-mutant loop.
loopVars == <<covered, cand, cur, skippedL, killedL, survivedL, base>>

InitCommon ==
    /\ clock = 0
    /\ budget \in 0..MaxBudgetHours
    /\ killed = [r \in Runners |-> {}]
    /\ summary = [s \in Seeds |-> NoSummary]
    /\ killInfo = [m \in Mutants |-> <<>>]
    /\ errDir = [b \in {"compile", "wrong"} |-> [s \in Seeds |-> "none"]]
    /\ covered = [r \in Runners |-> <<>>]
    /\ cand = [r \in Runners |-> <<>>]
    /\ cur = [r \in Runners |-> NoMutant]
    /\ skippedL = [r \in Runners |-> <<>>]
    /\ killedL = [r \in Runners |-> <<>>]
    /\ survivedL = [r \in Runners |-> <<>>]
    /\ base = [r \in Runners |-> [exit |-> 0, stdout |-> "a", stderr |-> "a"]]
    /\ hist = [gen |-> [r \in Runners |-> "none"],
               validated |-> {},
               tried |-> [r \in Runners |-> {}],
               won |-> [r \in Runners |-> {}],
               lost |-> {},
               broke |-> {},
               dup |-> {},
               notrace |-> {},
               cres |-> [r \in Runners |-> <<>>],
               eres |-> [r \in Runners |-> <<>>]]

\* ---------------------------------------- run-fuzzer-campaign.py loop
Backends == {"GO", "CSHARP"}

\* DafnyBackend.get_known_compilation_errors: non-empty for JAVA and CSHARP.
HasKnownCompilationErrors(b) == b \in {"JAVA", "CSHARP"}

\* DafnyBackend.get_known_execution_errors: non-empty for JAVA only.
HasKnownExecutionErrors(b) == b = "JAVA"

CompileOutcomes == [exit : {0, 1}, timeout : BOOLEAN]
ExecOutcomes == [exit : {0, 1}, stdout : {"a", "b"}, stderr : {"a", "b"}, timeout : BOOLEAN]

\* DafnyBackend.regular_compile_to_backend.  str has no method "contains": with a
\* non-zero exit code and a non-empty list of known errors the call raises.
RegularCompileToBackend(b, o) ==
    IF o.exit # 0
    THEN IF HasKnownCompilationErrors(b) THEN "RAISED" ELSE "COMPILER_ERROR"
    ELSE IF o.timeout THEN "COMPILER_ERROR" ELSE "EXPECTED_SUCCESS"

\* DafnyBackend.regular_execution (program_status).
RegularExecution(b, o) ==
    IF o.timeout THEN "RUNTIME_TIMEOUT"
    ELSE IF o.exit # 0
         THEN IF HasKnownExecutionErrors(b) THEN "RAISED" ELSE "RUNTIME_EXITCODE_NON_ZERO"
         ELSE "EXPECTED_SUCCESS"

\* util.helper.all_equal over the values f[b], b in Backends.
AllEqualSkipped(f) == TRUE

AllEqual(f) == \A x, y \in DOMAIN f : f[x] = f[y]

\* Steps 4-7 of the campaign loop: the verdict on the baseline compile results.
CompileVerdict(cs) ==
    IF \E b \in DOMAIN cs : cs[b] = "RAISED" THEN "RAISED"
    ELSE IF \E b \in DOMAIN cs : cs[b] = "KNOWN_BUG" THEN "KNOWN_BUG"
    ELSE IF \E b \in DOMAIN cs : cs[b] = "COMPILER_ERROR" THEN "COMPILER_ERROR"
    ELSE "EXPECTED_SUCCESS"

\* ... and on the baseline execution results (es: status, eo: process result).
ExecVerdict(es, eo) ==
    IF \E b \in DOMAIN es : es[b] = "RAISED" THEN "RAISED"
    ELSE IF \E b \in DOMAIN es : es[b] = "KNOWN_BUG" THEN "KNOWN_BUG"
    ELSE IF \E b \in DOMAIN es : es[b] = "RUNTIME_EXITCODE_NON_ZERO"
         THEN "RUNTIME_EXITCODE_NON_ZERO"
    ELSE IF \E b \in DOMAIN eo : eo[b].timeout THEN "RUNTIME_TIMEOUT"
    ELSE IF ~AllEqual([b \in DOMAIN eo |-> eo[b].exit]) THEN "RUNTIME_EXITCODE_DIFFER"
    ELSE IF ~AllEqual([b \in DOMAIN eo |-> eo[b].stdout]) THEN "RUNTIME_STDOUT_DIFFER"
    ELSE IF ~AllEqual([b \in DOMAIN eo |-> eo[b].stderr]) THEN "RUNTIME_STDERR_DIFFER"
    ELSE "EXPECTED_SUCCESS"

\* persist_failed_program: create-if-absent of <bucket>/<program_uid>.
PersistFailedProgram(bucket, s, status) ==
    IF errDir[bucket][s] = "none"
    THEN [errDir EXCEPT ![bucket][s] = status]
    ELSE errDir

Init ==
    /\ InitCommon
    /\ call = NoCall /\ result = NoResult
    /\ pc = [r \in Runners |-> "check"]
    /\ seed = [r \in Runners |-> NoSeed]
    /\ \E S \in SUBSET Mutants : surviving = [r \in Runners |-> S]
    /\ killDir = [m \in Mutants |-> NoRunner]
    /\ testsDir = [s \in Seeds |-> NoRunner]
    /\ baseline = [r \in Runners |-> "none"]
    /\ traces = [r \in Runners |-> {}]

\* The iteration's locals are dead once it ends (continue, or the function returns).
Ended(p) == p \in {"check", "done", "crashed", "exit1"}

\* The exit code of the campaign process whose runner ended at position p: the
\* loop ended ("done"), exit(1) was called ("exit1", SystemExit is not caught), or
\* an exception left the loop ("crashed": @logger.catch logs it and returns, main
\* returns after the call, the interpreter exits with 0).
ProcessExitCode(p) == IF p = "exit1" THEN 1 ELSE 0

\* while time_budget_exists(...) and len(surviving_mutants) > 0: draw a seed,
\* skip it when tests/fuzzd_<seed> exists, else clear the scratch directories.
LoopCheck(r) ==
    /\ pc[r] = "check"
    /\ IF TimeBudgetExists(clock, budget) /\ surviving[r] # {}
       THEN \E s \in Seeds :
              IF testsDir[s] # NoRunner
              THEN UNCHANGED <<pc, seed>>
              ELSE /\ seed' = [seed EXCEPT ![r] = s]
                   /\ pc' = [pc EXCEPT ![r] = "generate"]
       ELSE /\ pc' = [pc EXCEPT ![r] = "done"]
            /\ UNCHANGED seed
    /\ UNCHANGED <<clock, budget, surviving, killed, testsDir, summary, killDir,
                   killInfo, errDir, baseline, traces, hist>>
    /\ UNCHANGED loopVars
    /\ UNCHANGED callVars

\* 1) execute_fuzz_d; on failure: continue.
Generate(r) ==
    /\ pc[r] = "generate"
    /\ \E o \in GenOutcomes :
         /\ pc' = [pc EXCEPT ![r] = IF ExecuteFuzzD(o) THEN "promote" ELSE "check"]
         /\ seed' = [seed EXCEPT ![r] = IF ExecuteFuzzD(o) THEN @ ELSE NoSeed]
         /\ hist' = [hist EXCEPT !.gen[r] =
                        IF o.timeout \/ o.exit # 0 \/ ~o.file THEN "failed" ELSE "ok"]
    /\ UNCHANGED <<clock, budget, surviving, killed, testsDir, summary,
                   killDir, killInfo, errDir, baseline, traces>>
    /\ UNCHANGED loopVars
    /\ UNCHANGED callVars

\* 2) current_program_output_dir.mkdir() and the copies of the generated program.
Promote(r) ==
    /\ pc[r] = "promote"
    /\ IF MkdirSucceeds(testsDir[seed[r]])
       THEN /\ testsDir' = [testsDir EXCEPT ![seed[r]] = r]
            /\ pc' = [pc EXCEPT ![r] = "compile"]
            /\ UNCHANGED <<seed, hist>>
       ELSE /\ pc' = [pc EXCEPT ![r] = "check"]
            /\ seed' = [seed EXCEPT ![r] = NoSeed]
            /\ hist' = [hist EXCEPT !.dup = @ \cup {<<r, seed[r]>>}]
            /\ UNCHANGED testsDir
    /\ UNCHANGED <<clock, budget, surviving, killed, summary, killDir,
                   killInfo, errDir, baseline, traces>>
    /\ UNCHANGED loopVars
    /\ UNCHANGED callVars

\* 3)-4) baseline compile on every backend, known-bug skip, compiler-error bucket.
BaselineCompile(r) ==
    /\ pc[r] = "compile"
    /\ \E co \in [Backends -> CompileOutcomes] :
         LET v == CompileVerdict([b \in Backends |-> RegularCompileToBackend(b, co[b])])
             to == CASE v = "RAISED" -> "crashed"
                     [] v = "EXPECTED_SUCCESS" -> "execute"
                     [] OTHER -> "check"
         IN
         /\ pc' = [pc EXCEPT ![r] = to]
         /\ baseline' = [baseline EXCEPT ![r] = IF Ended(to) THEN "none" ELSE "compiled"]
         /\ seed' = [seed EXCEPT ![r] = IF Ended(to) THEN NoSeed ELSE @]
         /\ errDir' = IF v = "COMPILER_ERROR"
                      THEN PersistFailedProgram("compile", seed[r], v)
                      ELSE errDir
         /\ hist' = [hist EXCEPT !.cres[r] = IF Ended(to) THEN <<>> ELSE co]
    /\ UNCHANGED <<clock, budget, surviving, killed, testsDir, summary,
                   killDir, killInfo, traces>>
    /\ UNCHANGED loopVars
    /\ UNCHANGED callVars

\* 5)-7) baseline execution on every backend and the differential checks.
BaselineExecute(r) ==
    /\ pc[r] = "execute"
    /\ \E eo \in [Backends -> ExecOutcomes] :
         LET v == ExecVerdict([b \in Backends |-> RegularExecution(b, eo[b])], eo)
             to == CASE v = "RAISED" -> "crashed"
                     [] v = "EXPECTED_SUCCESS" -> "trace"
                     [] OTHER -> "check"
         IN
         /\ pc' = [pc EXCEPT ![r] = to]
         /\ baseline' = [baseline EXCEPT ![r] = IF Ended(to) THEN "none" ELSE "valid"]
         /\ seed' = [seed EXCEPT ![r] = IF Ended(to) THEN NoSeed ELSE @]
         /\ errDir' = IF v \notin {"RAISED", "KNOWN_BUG", "EXPECTED_SUCCESS"}
                      THEN PersistFailedProgram("wrong", seed[r], v)
                      ELSE errDir
         /\ hist' = [hist EXCEPT !.cres[r] = IF Ended(to) THEN <<>> ELSE @,
                                 !.eres[r] = IF Ended(to) THEN <<>> ELSE eo]
    /\ UNCHANGED <<clock, budget, surviving, killed, testsDir, summary,
                   killDir, killInfo, traces>>
    /\ UNCHANGED loopVars
    /\ UNCHANGED callVars

\* all(not trace_path.exists() for ... in traced_compilation_results)
NoTraceFileIgnored(tf) == FALSE

NoTraceFile(tf) == \A b \in Backends : b \notin tf

\* 8) traced compile on every backend; continue when no backend left a trace file.
TracedCompile(r) ==
    /\ pc[r] = "trace"
    /\ \E co \in [Backends -> CompileOutcomes], tf \in SUBSET Backends :
         LET v == CompileVerdict([b \in Backends |-> RegularCompileToBackend(b, co[b])])
             to == IF v = "RAISED" THEN "crashed" ELSE IF NoTraceFile(tf) THEN "check" ELSE "claim"
         IN
         /\ pc' = [pc EXCEPT ![r] = to]
         /\ traces' = [traces EXCEPT ![r] = IF Ended(to) THEN {} ELSE tf]
         /\ baseline' = [baseline EXCEPT ![r] = IF Ended(to) THEN "none" ELSE @]
         /\ seed' = [seed EXCEPT ![r] = IF Ended(to) THEN NoSeed ELSE @]
         /\ hist' = [hist EXCEPT !.validated = IF to = "claim" THEN @ \cup {seed[r]} ELSE @,
                                 !.notrace = IF to = "check" THEN @ \cup {seed[r]} ELSE @,
                                 !.cres[r] = IF Ended(to) THEN <<>> ELSE @,
                                 !.eres[r] = IF Ended(to) THEN <<>> ELSE @]
    /\ UNCHANGED <<clock, budget, surviving, killed, testsDir, summary,
                   killDir, killInfo, errDir>>
    /\ UNCHANGED loopVars
    /\ UNCHANGED callVars

\* 9) current_program_output_dir.mkdir() again; FileExistsError: continue.
Claim(r) ==
    /\ pc[r] = "claim"
    /\ IF MkdirSucceeds(testsDir[seed[r]])
       THEN /\ testsDir' = [testsDir EXCEPT ![seed[r]] = r]
            /\ pc' = [pc EXCEPT ![r] = "load"]
            /\ UNCHANGED <<seed, baseline, traces, hist>>
       ELSE /\ pc' = [pc EXCEPT ![r] = "check"]
            /\ seed' = [seed EXCEPT ![r] = NoSeed]
            /\ baseline' = [baseline EXCEPT ![r] = "none"]
            /\ traces' = [traces EXCEPT ![r] = {}]
            /\ hist' = [hist EXCEPT !.cres[r] = <<>>, !.eres[r] = <<>>]
            /\ UNCHANGED testsDir
    /\ UNCHANGED <<clock, budget, surviving, killed, summary, killDir,
                   killInfo, errDir>>
    /\ UNCHANGED loopVars
    /\ UNCHANGED callVars

Next ==
    \/ Tick
    \/ \E r \in Runners : LoopCheck(r)
    \/ \E r \in Runners : Generate(r)
    \/ \E r \in Runners : Promote(r)
    \/ \E r \in Runners : BaselineCompile(r)
    \/ \E r \in Runners : BaselineExecute(r)
    \/ \E r \in Runners : TracedCompile(r)
    \/ \E r \in Runners : Claim(r)

Spec == Init /\ [][Next]_vars

\* Time advances, and every external-process wait of a runner returns, so that a
\* runner that has a step to take takes it.
SpecFair ==
    /\ Spec
    /\ WF_vars(Tick)
    /\ \A r \in Runners :
          WF_vars(LoopCheck(r) \/ Generate(r) \/ Promote(r) \/ BaselineCompile(r)
                     \/ BaselineExecute(r) \/ TracedCompile(r) \/ Claim(r))

\* ------------------------------------------------ run-fuzz-d.py loop
\* The part of the fuzz-d variant from the program claim (step 5) to the summary
\* (step 12), entered by each runner with a generated, validated and traced program.
\* The campaign variant's lines 420-580 have the same order of statements.

KilledStatuses == {"KILLED_COMPILER_CRASHED", "KILLED_COMPILER_TIMEOUT",
                   "KILLED_COMPILER_MISSING_EXECUTABLE_OUTPUT", "KILLED_RUNTIME_TIMEOUT",
                   "KILLED_RUNTIME_EXITCODE_DIFFER", "KILLED_RUNTIME_STDOUT_DIFFER",
                   "KILLED_RUNTIME_STDERR_DIFFER"}
SurvivedStatuses == {"SURVIVED_HASH_EQUIVALENT", "SURVIVED_HASH_DIFFER"}

MutatedCompileOutcomes == [exit : {0, 1}, timeout : BOOLEAN, artifact : BOOLEAN]

\* execute_mutated_dafny: a kill status, or "NONE" when the compile succeeded.
ExecuteMutatedDafny(c) ==
    IF c.timeout THEN "KILLED_COMPILER_TIMEOUT"
    ELSE IF c.exit # 0 THEN "KILLED_COMPILER_CRASHED"
    ELSE IF ~c.artifact THEN "KILLED_COMPILER_MISSING_EXECUTABLE_OUTPUT"
    ELSE "NONE"

\* execute_mutated_compiled_program (the labels are those the code returns).
ExecuteMutatedCompiledProgram(hashEqual, e, d) ==
    IF hashEqual THEN "SURVIVED_HASH_EQUIVALENT"
    ELSE IF e.timeout THEN "KILLED_COMPILER_TIMEOUT"
    ELSE IF e.exit # d.exit THEN "KILLED_RUNTIME_EXITCODE_DIFFER"
    ELSE IF e.stdout # d.stdout THEN "KILLED_RUNTIME_STDERR_DIFFER"
    ELSE IF e.stderr # d.stderr THEN "KILLED_RUNTIME_STDOUT_DIFFER"
    ELSE "SURVIVED_HASH_DIFFER"

\* Steps 9-10: the mutated compile and, when it succeeded, the mutated execution.
KillStatusOf(c, hashEqual, e, d) ==
    IF ExecuteMutatedDafny(c) # "NONE"
    THEN ExecuteMutatedDafny(c)
    ELSE ExecuteMutatedCompiledProgram(hashEqual, e, d)

\* A trace line split on ':' is a tuple of fields; the activation key is "K".
TraceLines == {<<"K", m>> : m \in Mutants} \cup {<<"K">>}
TraceFiles == SUBSET TraceLines

\* 6) a trace is corrupted when some line does not split into two fields.
TraceCorrupted(tf) == \E t \in tf : Len(t) # 2

MutantOf(t) == t[2]

\* killed_mutants.add(...) / surviving_mutants.remove(...) of steps 8 and 11.
KilledReset(k, m) == {m}

KilledAdd(k, m) == k \cup {m}

\* list.append of the three per-program lists.
AppendDropped(l, m) == l

AppendTo(l, m) == Append(l, m)

\* The state in which a runner reaches step 5: a seed drawn, budget and working
\* set as the campaign left them, kill claims of earlier runs on disk.
InitFuzzD ==
    /\ InitCommon
    /\ call = NoCall /\ result = NoResult
    /\ pc = [r \in Runners |-> "claim"]
    /\ seed \in [Runners -> Seeds]
    /\ \E S \in SUBSET Mutants : surviving = [r \in Runners |-> S]
    /\ killDir \in [Mutants -> {NoRunner, "earlier"}]
    /\ testsDir = [s \in Seeds |-> NoRunner]
    /\ baseline = [r \in Runners |-> "none"]
    /\ traces = [r \in Runners |-> {}]

\* The per-iteration locals of runner r, reset when the iteration ends.
ResetLocals(r) ==
    /\ seed' = [seed EXCEPT ![r] = NoSeed]
    /\ covered' = [covered EXCEPT ![r] = <<>>]
    /\ cand' = [cand EXCEPT ![r] = <<>>]
    /\ cur' = [cur EXCEPT ![r] = NoMutant]
    /\ skippedL' = [skippedL EXCEPT ![r] = <<>>]
    /\ killedL' = [killedL EXCEPT ![r] = <<>>]
    /\ survivedL' = [survivedL EXCEPT ![r] = <<>>]

\* 5) current_program_output_dir.mkdir(); FileExistsError: continue.
FuzzDClaim(r) ==
    /\ pc[r] = "claim"
    /\ IF MkdirSucceeds(testsDir[seed[r]])
       THEN /\ testsDir' = [testsDir EXCEPT ![seed[r]] = r]
            /\ pc' = [pc EXCEPT ![r] = "load"]
            /\ UNCHANGED <<seed, hist>>
       ELSE /\ pc' = [pc EXCEPT ![r] = "check"]
            /\ seed' = [seed EXCEPT ![r] = NoSeed]
            /\ hist' = [hist EXCEPT !.dup = @ \cup {<<r, seed[r]>>}]
            /\ UNCHANGED testsDir
    /\ UNCHANGED <<clock, budget, surviving, killed, summary, killDir, killInfo, errDir,
                   baseline, traces>>
    /\ UNCHANGED loopVars
    /\ UNCHANGED callVars

\* 6)-8) load the trace, drop duplicates, split candidates from already-killed.
FuzzDLoadTrace(r) ==
    /\ pc[r] = "load"
    /\ \E tf \in TraceFiles :
         IF TraceCorrupted(tf)
         THEN /\ pc' = [pc EXCEPT ![r] = "check"]
              /\ seed' = [seed EXCEPT ![r] = NoSeed]
              /\ UNCHANGED <<covered, cand, skippedL>>
         ELSE \E order \in Orderings({MutantOf(t) : t \in tf}) :
                /\ cand' = [cand EXCEPT ![r] = SelectSeq(order, LAMBDA m : m \notin killed[r])]
                /\ covered' = [covered EXCEPT ![r] = Sorted(order)]
                /\ skippedL' = [skippedL EXCEPT ![r] =
                                   SelectSeq(Sorted(order), LAMBDA m : m \in killed[r])]
                /\ pc' = [pc EXCEPT ![r] = "mutant"]
                /\ UNCHANGED seed
    /\ UNCHANGED <<clock, budget, surviving, killed, testsDir, summary, killDir, killInfo,
                   errDir, baseline, traces, cur, killedL, survivedL, base, hist>>
    /\ UNCHANGED callVars

\* Top of the per-mutant loop up to the start of the mutated compile: the budget
\* check, the kill-claim check with its bookkeeping, and (no continue) the compile.
FuzzDMutantBegin(r) ==
    /\ pc[r] = "mutant"
    /\ IF cand[r] = <<>>
       THEN /\ pc' = [pc EXCEPT ![r] = "summary"]
            /\ UNCHANGED <<cand, cur, surviving, killed, skippedL, hist>>
       ELSE IF ~TimeBudgetExists(clock, budget) \/ surviving[r] = {}
       THEN /\ pc' = [pc EXCEPT ![r] = "summary"]
            /\ hist' = [hist EXCEPT !.broke = @ \cup {seed[r]}]
            /\ UNCHANGED <<cand, cur, surviving, killed, skippedL>>
       ELSE LET m == Head(cand[r]) IN
            IF killDir[m] # NoRunner /\ m \notin surviving[r]
            THEN /\ pc' = [pc EXCEPT ![r] = "crashed"]
                 /\ UNCHANGED <<cand, cur, surviving, killed, skippedL, hist>>
            ELSE /\ pc' = [pc EXCEPT ![r] = "testing"]
                 /\ cur' = [cur EXCEPT ![r] = m]
                 /\ cand' = [cand EXCEPT ![r] = Tail(@)]
                 /\ IF killDir[m] # NoRunner
                    THEN /\ surviving' = [surviving EXCEPT ![r] = @ \ {m}]
                         /\ killed' = [killed EXCEPT ![r] = KilledAdd(@, m)]
                         /\ skippedL' = [skippedL EXCEPT ![r] = AppendTo(@, m)]
                    ELSE UNCHANGED <<surviving, killed, skippedL>>
                 /\ UNCHANGED hist
    /\ UNCHANGED <<clock, budget, seed, testsDir, summary, killDir, killInfo, errDir,
                   baseline, traces, covered, killedL, survivedL, base>>
    /\ UNCHANGED callVars

\* 9)-11) the outcome of the mutated compile and execution, the kill bookkeeping,
\* and the kill claim killed_mutants/<key>-<id> with its kill_info.json.
FuzzDMutantResult(r) ==
    /\ pc[r] = "testing"
    /\ \E ks \in {KillStatusOf(c, h, e, base[r]) :
                       c \in MutatedCompileOutcomes, h \in BOOLEAN, e \in ExecOutcomes} :
         LET m == cur[r] IN
         IF ks \in SurvivedStatuses
         THEN /\ survivedL' = [survivedL EXCEPT ![r] = AppendTo(@, m)]
              /\ pc' = [pc EXCEPT ![r] = "mutant"]
              /\ UNCHANGED <<surviving, killed, killedL, killDir, killInfo, hist>>
         ELSE IF m \notin surviving[r]
         THEN /\ pc' = [pc EXCEPT ![r] = "crashed"]
              /\ UNCHANGED <<surviving, killed, killedL, survivedL, killDir, killInfo, hist>>
         ELSE /\ surviving' = [surviving EXCEPT ![r] = @ \ {m}]
              /\ killed' = [killed EXCEPT ![r] = KilledAdd(@, m)]
              /\ killedL' = [killedL EXCEPT ![r] = AppendTo(@, m)]
              /\ pc' = [pc EXCEPT ![r] = "mutant"]
              /\ IF MkdirSucceeds(killDir[m])
                 THEN /\ killDir' = [killDir EXCEPT ![m] = r]
                      /\ killInfo' = [killInfo EXCEPT ![m] =
                             Append(@, [mutant |-> m, killed_by_test |-> seed[r],
                                        kill_status |-> ks])]
                      /\ hist' = [hist EXCEPT !.tried[r] = @ \cup {m},
                                              !.won[r] = @ \cup {m}]
                 ELSE /\ hist' = [hist EXCEPT !.tried[r] = @ \cup {m},
                                              !.lost = @ \cup {<<seed[r], m>>}]
                      /\ UNCHANGED <<killDir, killInfo>>
              /\ UNCHANGED survivedL
    /\ cur' = [cur EXCEPT ![r] = NoMutant]
    /\ UNCHANGED <<clock, budget, seed, testsDir, summary, errDir, baseline, traces,
                   covered, cand, skippedL, base>>
    /\ UNCHANGED callVars

\* 13), 12) early_termination, test-summary.json, and the exit on an unexpected state.
FuzzDSummary(r) ==
    /\ pc[r] = "summary"
    /\ LET all == Sorted(killedL[r] \o survivedL[r] \o skippedL[r])
           early == covered[r] # all
       IN
       /\ summary' = [summary EXCEPT ![seed[r]] =
              [written |-> TRUE,
               early_termination |-> early,
               killed_mutants |-> Sorted(killedL[r]),
               skipped_mutants |-> Sorted(skippedL[r]),
               survived_mutants |-> Sorted(survivedL[r]),
               covered_mutants |-> covered[r]]]
       /\ pc' = [pc EXCEPT ![r] =
              IF early /\ TimeBudgetExists(clock, budget) /\ surviving[r] # {}
              THEN "exit1" ELSE "check"]
    /\ ResetLocals(r)
    /\ UNCHANGED <<clock, budget, surviving, killed, testsDir, killDir, killInfo, errDir,
                   baseline, traces, base, hist>>
    /\ UNCHANGED callVars

\* The loop condition, and the seed draw of the next iteration: random names the
\* function random.random (line 13), so random.randint raises.
FuzzDLoopCheck(r) ==
    /\ pc[r] = "check"
    /\ pc' = [pc EXCEPT ![r] =
           IF TimeBudgetExists(clock, budget) /\ surviving[r] # {} THEN "crashed" ELSE "done"]
    /\ UNCHANGED <<clock, budget, seed, surviving, killed, testsDir, summary, killDir,
                   killInfo, errDir, baseline, traces, hist>>
    /\ UNCHANGED loopVars
    /\ UNCHANGED callVars

NextFuzzD ==
    \/ Tick
    \/ \E r \in Runners : FuzzDClaim(r)
    \/ \E r \in Runners : FuzzDLoadTrace(r)
    \/ \E r \in Runners : FuzzDMutantBegin(r)
    \/ \E r \in Runners : FuzzDMutantResult(r)
    \/ \E r \in Runners : FuzzDSummary(r)
    \/ \E r \in Runners : FuzzDLoopCheck(r)

SpecFuzzD == InitFuzzD /\ [][NextFuzzD]_vars

\* ------------------------------- run-fuzzer-campaign.py, steps 10 to 19
\* The campaign variant from the trace load (step 10) on, entered by each runner
\* with a validated program, the trace files its traced compile left, and the
\* program directory in its hands.

\* parse_recorded_trace returns None for a line that is not key:id.
None == <<>>

ParseRecordedTrace(t) ==
    IF Len(t) # 2 THEN None
    ELSE IF t[1] # "K" THEN None
    ELSE <<t[1], t[2]>>

\* MutantTrace.reconstruct_trace_from_disk, on the backends' trace paths:
\* open() raises on a missing file; the parsed lines are made a set; the trace
\* is given up (None is returned) when any parsed line is not None.
TraceGivenUp(parsed) == \E x \in parsed : x # None

ReconstructTraceFromDisk(present, tf) ==
    IF ~present THEN "RAISED"
    ELSE IF TraceGivenUp({ParseRecordedTrace(t) : t \in tf}) THEN "NONE"
    ELSE "LIST"

\* 10)-13) load every backend's trace, merge, sort, split into candidates and
\* skipped.  A list that came back holds only None entries, and the tuple
\* unpacking of step 12 raises on the first of them.
CampaignLoadTrace(r) ==
    /\ pc[r] = "load"
    /\ \E files \in [Backends -> TraceFiles] :
         LET res == [b \in Backends |-> ReconstructTraceFromDisk(b \in traces[r], files[b])]
             merged == UNION {{ParseRecordedTrace(t) : t \in files[b]} : b \in Backends}
             to == IF \E b \in Backends : res[b] = "RAISED" THEN "crashed"
                   ELSE IF \E b \in Backends : res[b] = "NONE" THEN "check"
                   ELSE IF merged # {} THEN "crashed"
                   ELSE "summary"
         IN
         /\ pc' = [pc EXCEPT ![r] = to]
         /\ seed' = [seed EXCEPT ![r] = IF to = "summary" THEN @ ELSE NoSeed]
    /\ traces' = [traces EXCEPT ![r] = {}]
    /\ baseline' = [baseline EXCEPT ![r] = "none"]
    /\ UNCHANGED <<clock, budget, surviving, killed, testsDir, summary, killDir, killInfo,
                   errDir, hist>>
    /\ UNCHANGED loopVars
    /\ UNCHANGED callVars

InitLoad ==
    /\ InitCommon
    /\ call = NoCall /\ result = NoResult
    /\ pc = [r \in Runners |-> "load"]
    /\ seed \in {f \in [Runners -> Seeds] : \A a, b \in Runners : a # b => f[a] # f[b]}
    /\ testsDir = [s \in Seeds |-> IF \E r \in Runners : seed[r] = s
                                  THEN CHOOSE r \in Runners : seed[r] = s
                                  ELSE NoRunner]
    /\ \E S \in SUBSET Mutants : surviving = [r \in Runners |-> S]
    /\ killDir \in [Mutants -> {NoRunner, "earlier"}]
    /\ baseline = [r \in Runners |-> "valid"]
    /\ traces \in [Runners -> (SUBSET Backends) \ {{}}]

\* Steps 18-19 (lines 543-580) are the statements of run-fuzz-d.py:442-478.
NextLoad ==
    \/ Tick
    \/ \E r \in Runners : CampaignLoadTrace(r)
    \/ \E r \in Runners : FuzzDSummary(r)

SpecLoad == InitLoad /\ [][NextLoad]_vars

\* ------------------------------------- the mutant-test functions, called alone
\* One call of one function on arguments drawn from its bounded inputs.

\* default_execution_result of a validated program: exit code 0, no timeout.
BaseOutcomes == [exit : {0}, stdout : {"a", "b"}, stderr : {"a", "b"}]

\* DafnyBackend.mutated_compile_to_backend (mutant_status).
MutatedCompileToBackend(o) ==
    IF o.timeout THEN "KILLED_COMPILER_TIMEOUT"
    ELSE IF o.exit # 0 THEN "KILLED_COMPILER_CRASHED"
    ELSE "SURVIVED"

\* DafnyBackend.mutant_execution (mutant_status).
MutantExecution(e, d) ==
    IF e.timeout THEN "KILLED_RUNTIME_TIMEOUT"
    ELSE IF e.exit # d.exit THEN "KILLED_RUNTIME_EXITCODE_DIFFER"
    ELSE IF e.stdout # d.stdout THEN "KILLED_RUNTIME_STDOUT_DIFFER"
    ELSE IF e.stderr # d.stderr THEN "KILLED_RUNTIME_STDERR_DIFFER"
    ELSE "SURVIVED"

CompileStatuses == {MutatedCompileToBackend(o) : o \in CompileOutcomes}
ExecStatuses == {MutantExecution(e, d) : e \in ExecOutcomes, d \in BaseOutcomes}

\* mutant_error_statuses of a mutant that did not survive: the compile statuses
\* when some backend's compile failed, else the execution statuses.
KilledErrorStatuses ==
    {st \in [Backends -> CompileStatuses] : \E b \in Backends : st[b] # "SURVIVED"}
        \cup {st \in [Backends -> ExecStatuses] : \E b \in Backends : st[b] # "SURVIVED"}

\* 17) the if/elif chain that picks the overall status and calls persist_kill_info.
OverallMutantStatus(st) ==
    IF \E b \in Backends : st[b] = "KILLED_COMPILER_CRASHED" THEN "KILLED_COMPILER_CRASHED"
    ELSE IF \E b \in Backends : st[b] = "KILLED_COMPILER_TIMEOUT" THEN "KILLED_COMPILER_TIMEOUT"
    ELSE IF \E b \in Backends : st[b] = "KILLED_RUNTIME_EXITCODE_DIFFER"
         THEN "KILLED_RUNTIME_EXITCODE_DIFFER"
    ELSE IF \E b \in Backends : st[b] = "KILLED_RUNTIME_STDOUT_DIFFER"
         THEN "KILLED_RUNTIME_STDOUT_DIFFER"
    ELSE IF \E b \in Backends : st[b] = "KILLED_RUNTIME_STDERR_DIFFER"
         THEN "KILLED_RUNTIME_STDERR_DIFFER"
    ELSE "NOT_PERSISTED"

\* persist_kill_info: the backends of result_dict whose status is not SURVIVED.
FailedTargetBackends(st) == {b \in Backends : st[b] # "SURVIVED"}

\* run-fuzz-d.py: run_subprocess on the mutated binary is reached when the mutated
\* compile gave no kill status and the two file hashes differ.
RunsMutatedProgram(c, hashEqual) == ExecuteMutatedDafny(c) = "NONE" /\ ~hashEqual

\* A trace line as text.  "K" stands for the text MUTATE_CSHARP_ACTIVATED_MUTANT,
\* "X" and "1" for any other characters, ":" for the delimiter.
LineChars == {"K", "X", "1", ":"}
TraceLineTexts == UNION {[1..n -> LineChars] : n \in 0..MaxLineLen}

\* str.split(':'): the fields between the delimiters, empty fields included.
RECURSIVE SplitColon(_)
SplitColon(s) ==
    IF \A i \in 1..Len(s) : s[i] # ":" THEN <<s>>
    ELSE LET i == CHOOSE j \in 1..Len(s) :
                     s[j] = ":" /\ \A k \in 1..(j - 1) : s[k] # ":"
         IN <<SubSeq(s, 1, i - 1)>> \o SplitColon(SubSeq(s, i + 1, Len(s)))

StartsWithAnything(field) == TRUE

\* env_var.startswith("MUTATE_CSHARP_ACTIVATED_MUTANT")
StartsWithPrefix(field) == Len(field) >= 1 /\ field[1] = "K"

\* MutantTrace.parse_recorded_trace on the text of a line.
ParseRecordedTraceText(line) ==
    LET individual_trace == SplitColon(line) IN
    IF Len(individual_trace) # 2 THEN None
    ELSE IF ~StartsWithPrefix(individual_trace[1]) THEN None
    ELSE <<individual_trace[1], individual_trace[2]>>

\* A trace file as readlines() returns it: a list of lines, repeats included.  The
\* line <<"X", 1>> has two fields and a key without the activation prefix.
CallTraceLines == TraceLines \cup {<<"X", 1>>}
TraceFileSeqs == UNION {[1..n -> CallTraceLines] : n \in 0..MaxLines}

\* The list comprehension over parse_recorded_trace.
ParsedLines(f) == [i \in 1..Len(f) |-> ParseRecordedTrace(f[i])]

ListKept(l) == {l}

\* list(set(l)): the elements of l, each once, in an order set() decides.
ListOfSet(l) == Orderings(Range(l))

\* A registry file (MutationRegistry.reconstruct_from_disk): for each mutated file
\* its environment variable and its mutant ids; a file has its own variable.
RegistryFiles == {"f1", "f2"}
RegistryEnvVars == {"K", "L"}
Registries ==
    UNION {{g \in [F -> [env_var : RegistryEnvVars, mutations : SUBSET Mutants]] :
              \A a, b \in F : a # b => g[a].env_var # g[b].env_var}
           : F \in SUBSET RegistryFiles}

\* MutationRegistry.env_var_to_registry and get_file_registry.
EnvVars(reg) == {reg[f].env_var : f \in DOMAIN reg}
GetFileRegistry(reg, v) == reg[CHOOSE f \in DOMAIN reg : reg[f].env_var = v]

\* The sanity checks of run-fuzzer-campaign.py: TRUE when no assert fails.
CampaignRegistryChecks(m, t) ==
    /\ Cardinality(DOMAIN m) = Cardinality(DOMAIN t)
    /\ DOMAIN m = DOMAIN t
    /\ EnvVars(m) = EnvVars(t)
    /\ \A v \in EnvVars(m) :
         /\ Cardinality(GetFileRegistry(m, v).mutations)
               = Cardinality(GetFileRegistry(t, v).mutations)
         /\ \A id \in GetFileRegistry(m, v).mutations :
               id \in GetFileRegistry(t, v).mutations

\* The sanity checks of run-fuzz-d.py: the two dicts are compared with ==, which
\* compares the FileMutationRegistry values by identity (the class defines no
\* __eq__), and the two registries never share a value object.
FuzzDRegistryChecks(m, t) ==
    /\ Cardinality(DOMAIN m) = Cardinality(DOMAIN t)
    /\ DOMAIN m = DOMAIN t
    /\ \A f \in DOMAIN m : FALSE

\* --compilation_timeout / --execution_timeout, and the elapsed_time measured
\* around the baseline compile and the baseline execution (one unit = 10 s).
ConfiguredTimeouts == {1, 4}
BaselineTimes == {0, 1, 2}

Max(a, b) == IF a >= b THEN a ELSE b

ScaledTimeoutUnscaled(configured, baselineTime) == configured

\* timeout_in_seconds = max(configured, elapsed_time * SCALE_FACTOR) of steps 14-15
\* (run-fuzz-d.py steps 9-10).
ScaledTimeout(configured, baselineTime) ==
    Max(configured, baselineTime * TimeoutScaleFactor)

\* The backends whose list of known compilation errors is not empty: only their
\* compile output can hold one of the listed substrings.
KnownErrorBackends == {b \in Backends : HasKnownCompilationErrors(b)}

Calls ==
    [fn : {"execute_mutated"}, c : MutatedCompileOutcomes, h : BOOLEAN,
     e : ExecOutcomes, d : BaseOutcomes,
     cfg : ConfiguredTimeouts, ecfg : ConfiguredTimeouts,
     ctime : BaselineTimes, etime : BaselineTimes]
        \cup [fn : {"mutant_execution"}, h : BOOLEAN, e : ExecOutcomes, d : BaseOutcomes]
        \cup [fn : {"campaign_test"}, co : [Backends -> CompileOutcomes],
               cfg : ConfiguredTimeouts, ctime : [Backends -> BaselineTimes]]
        \cup [fn : {"persist_kill"}, st : KilledErrorStatuses, exists : BOOLEAN]
        \cup [fn : {"load_traces"}, files : [Backends -> TraceFileSeqs]]
        \cup [fn : {"parse_recorded_trace"}, line : TraceLineTexts]
        \cup [fn : {"baseline_compile"}, co : [Backends -> CompileOutcomes],
               known : SUBSET KnownErrorBackends]
        \cup [fn : {"validated_mutant_registry"}, prog : {"campaign", "fuzz_d"},
               mutation : Registries, tracer : Registries]

\* A call returns its result and leaves the campaign's state alone.
Returns(res) ==
    /\ result' = res
    /\ call' = call
    /\ UNCHANGED <<clock, budget, pc, seed, surviving, killed, testsDir, summary,
                   killDir, killInfo, errDir, baseline, traces, hist>>
    /\ UNCHANGED loopVars

\* run-fuzz-d.py steps 9-10 for one mutant.
CallExecuteMutated ==
    /\ call.fn = "execute_mutated" /\ result = NoResult
    /\ Returns([status |-> KillStatusOf(call.c, call.h, call.e, call.d),
                 executed |-> RunsMutatedProgram(call.c, call.h),
                 limits |->
                    IF ExecuteMutatedDafny(call.c) = "NONE"
                    THEN [k \in {"compile", "execute"} |->
                            IF k = "compile" THEN ScaledTimeout(call.cfg, call.ctime)
                            ELSE ScaledTimeout(call.ecfg, call.etime)]
                    ELSE [k \in {"compile"} |-> ScaledTimeout(call.cfg, call.ctime)]])

\* DafnyBackend.mutant_execution on an artifact whose hash is or is not that of
\* the baseline artifact: the hash is not looked at and the process is run.
CallMutantExecution ==
    /\ call.fn = "mutant_execution" /\ result = NoResult
    /\ Returns([status |-> MutantExecution(call.e, call.d), executed |-> TRUE])

\* run-fuzzer-campaign.py steps 14-15 for one mutant: the mutated compile on every
\* backend, then "for _, result in mutated_compilation_results" unpacks the keys
\* of the dict, which are DafnyBackend members, and raises.
CallCampaignTest ==
    /\ call.fn = "campaign_test" /\ result = NoResult
    /\ Returns([status |-> "RAISED",
                 compiled |-> [b \in Backends |-> MutatedCompileToBackend(call.co[b])],
                 limits |-> [b \in Backends |-> ScaledTimeout(call.cfg, call.ctime[b])],
                 executed |-> FALSE])

\* run-fuzzer-campaign.py steps 16-17 for one mutant that did not survive.
CallPersistKill ==
    /\ call.fn = "persist_kill" /\ result = NoResult
    /\ Returns([status |-> OverallMutantStatus(call.st),
                 mkdir |-> OverallMutantStatus(call.st) # "NOT_PERSISTED",
                 failed_target_backends |-> FailedTargetBackends(call.st),
                 claimed |-> call.exists \/ OverallMutantStatus(call.st) # "NOT_PERSISTED"])

\* run-fuzzer-campaign.py steps 10-12 on the trace files of the backends (all
\* present): reconstruct_trace_from_disk on each, "continue" when one of them came
\* back None, else the merged list(set(chain(...))), sorted (a list that came back
\* holds None entries only, so the merged list has at most the one entry None), and
\* the tuple unpacking of step 12, which raises on a None entry.
CallLoadTraces ==
    /\ call.fn = "load_traces" /\ result = NoResult
    /\ LET status == [b \in Backends |->
                        ReconstructTraceFromDisk(TRUE, Range(call.files[b]))]
           returned == [b \in Backends |->
                          IF status[b] = "LIST" THEN ListOfSet(ParsedLines(call.files[b]))
                          ELSE {<<>>}]
           skip == \E b \in Backends : status[b] = "NONE"
       IN \E go \in returned["GO"], cs \in returned["CSHARP"] :
            \E merged \in (IF skip THEN {<<>>} ELSE ListOfSet(go \o cs)) :
                Returns([status |-> IF skip THEN "SKIPPED"
                                    ELSE IF merged # <<>> THEN "RAISED"
                                    ELSE "LOADED",
                         trace |-> status,
                         lists |-> [b \in Backends |-> IF b = "GO" THEN go ELSE cs],
                         merged |-> merged])

\* MutantTrace.parse_recorded_trace called on one line: it returns a pair or None
\* and has no statement that raises on a str.
CallParseRecordedTrace ==
    /\ call.fn = "parse_recorded_trace" /\ result = NoResult
    /\ Returns([status |-> "RETURNED", value |-> ParseRecordedTraceText(call.line)])

\* validated_mutant_registry at startup (main, before the campaign loop): the
\* registry is returned, or an assert ends the process.
CallValidatedMutantRegistry ==
    /\ call.fn = "validated_mutant_registry" /\ result = NoResult
    /\ Returns([status |->
                   IF (IF call.prog = "campaign"
                       THEN CampaignRegistryChecks(call.mutation, call.tracer)
                       ELSE FuzzDRegistryChecks(call.mutation, call.tracer))
                   THEN "RETURNED" ELSE "ASSERTION_ERROR"])

\* run-fuzzer-campaign.py steps 3-4 for one program: the baseline compile on every
\* backend (call.known: the backends whose output holds a known error substring;
\* regular_compile_to_backend raises before it looks at the output), the known-bug
\* skip and the compiler-error bucket.
CallBaselineCompile ==
    /\ call.fn = "baseline_compile" /\ result = NoResult
    /\ LET v == CompileVerdict([b \in Backends |-> RegularCompileToBackend(b, call.co[b])])
       IN Returns([verdict |-> v,
                   to |-> CASE v = "RAISED" -> "crashed"
                            [] v = "EXPECTED_SUCCESS" -> "execute"
                            [] OTHER -> "check",
                   persisted |-> v = "COMPILER_ERROR"])

InitCall ==
    /\ InitCommon
    /\ call \in Calls
    /\ result = NoResult
    /\ pc = [r \in Runners |-> "done"]
    /\ seed = [r \in Runners |-> NoSeed]
    /\ surviving = [r \in Runners |-> {}]
    /\ killDir = [m \in Mutants |-> NoRunner]
    /\ testsDir = [s \in Seeds |-> NoRunner]
    /\ baseline = [r \in Runners |-> "none"]
    /\ traces = [r \in Runners |-> {}]

NextCall ==
    \/ CallExecuteMutated
    \/ CallMutantExecution
    \/ CallCampaignTest
    \/ CallPersistKill
    \/ CallLoadTraces
    \/ CallValidatedMutantRegistry
    \/ CallParseRecordedTrace
    \/ CallBaselineCompile

SpecCall == InitCall /\ [][NextCall]_vars

\* ------------------------------------------------- util/run_subprocess.py
\* One call of run_subprocess.  The child: exits by itself after "runs" time units
\* unless "forever"; "ignores" SIGTERM or dies of it; "holder" is a descendant that
\* has left the process group and keeps the write ends of the pipes open.
Children ==
    [runs : 0..MaxRunTime, forever : BOOLEAN, ignores : BOOLEAN, holder : BOOLEAN]

\* communicate() returns when the child has exited and both pipes are at EOF.
ChildExited(c, elapsed, sigterm) ==
    \/ ~c.forever /\ elapsed >= c.runs
    \/ sigterm /\ ~c.ignores
CommunicateDone(c, elapsed, sigterm) == ChildExited(c, elapsed, sigterm) /\ ~c.holder

\* Time passes while communicate() waits: with the timeout of line 15 up to the
\* timeout, without one (line 19) for as long as the child runs.
RunSubprocessWait ==
    /\ call.fn = "run_subprocess"
    /\ result.status \in {"communicate", "drain"}
    /\ ~CommunicateDone(call.child, result.elapsed, result.status = "drain")
    /\ result.status = "communicate" => result.elapsed < call.timeout
    /\ result.elapsed < MaxRunTime
    /\ Returns([result EXCEPT !.elapsed = @ + 1])

\* Lines 15-16: communicate(timeout) came back in time.
RunSubprocessCompletes ==
    /\ call.fn = "run_subprocess"
    /\ result.status = "communicate"
    /\ CommunicateDone(call.child, result.elapsed, FALSE)
    /\ result.elapsed <= call.timeout
    /\ Returns([result EXCEPT !.status = "returned", !.timeout = FALSE])

\* Lines 17-18: TimeoutExpired, SIGTERM to the process group of the child.
RunSubprocessTimeoutExpired ==
    /\ call.fn = "run_subprocess"
    /\ result.status = "communicate"
    /\ result.elapsed = call.timeout
    /\ Returns([result EXCEPT !.status = "drain"])

\* Lines 19-20: communicate() without a timeout came back.
RunSubprocessDrained ==
    /\ call.fn = "run_subprocess"
    /\ result.status = "drain"
    /\ CommunicateDone(call.child, result.elapsed, TRUE)
    /\ Returns([result EXCEPT !.status = "returned", !.timeout = TRUE])

InitSub ==
    /\ InitCommon
    /\ call \in [fn : {"run_subprocess"}, timeout : 1..MaxSubTimeout, child : Children]
    /\ result = [status |-> "communicate", elapsed |-> 0, timeout |-> FALSE]
    /\ pc = [r \in Runners |-> "done"]
    /\ seed = [r \in Runners |-> NoSeed]
    /\ surviving = [r \in Runners |-> {}]
    /\ killDir = [m \in Mutants |-> NoRunner]
    /\ testsDir = [s \in Seeds |-> NoRunner]
    /\ baseline = [r \in Runners |-> "none"]
    /\ traces = [r \in Runners |-> {}]

NextSub ==
    \/ RunSubprocessWait
    \/ RunSubprocessCompletes
    \/ RunSubprocessTimeoutExpired
    \/ RunSubprocessDrained

SpecSub == InitSub /\ [][NextSub]_vars

\* Time advances and a call that can return does.
SpecSubFair == SpecSub /\ WF_vars(NextSub)

\* ------------------------------------------------- the scratch directories
\* One runner's loop as its five scratch directories under temp_dir see it
\* (call.prog is the program run; result holds the position in the loop and the
\* directories' contents).  A directory holds the file the program names in it
\* (generated.dfy, mutant-trace, default, mutated, traced: "named") and whatever
\* else the generator or a compiler leaves there ("other").
ScratchDirs == {"fuzz_d_generation", "execution_trace_output", "mutated_compilation",
                "traced_compilation", "default_compilation"}
ScratchFiles == {"named", "other"}

UnlinkNamed(files) == files \ {"named"}

\* helper.empty_directory: every entry is deleted; a deletion that raises is logged
\* and the entry stays.
EmptyDirectory(files, failed) == files \cap failed

\* 0) campaign: empty_directory on the five directories, then the asserts that
\* each is empty (an AssertionError ends the function).  fuzz-d: unlink of the five
\* named files.
ScratchClean ==
    /\ call.fn = "scratch_loop" /\ result.status = "clean"
    /\ \E failed \in SUBSET ScratchFiles :
         LET left == [d \in ScratchDirs |->
                        IF call.prog = "campaign"
                        THEN EmptyDirectory(result.dirs[d], failed)
                        ELSE UnlinkNamed(result.dirs[d])]
         IN Returns([status |-> IF call.prog = "campaign"
                                   /\ \E d \in ScratchDirs : left[d] # {}
                                THEN "aborted" ELSE "generate",
                     dirs |-> left])

\* 1) the generator writes into fuzz_d_generation; on failure "continue".
ScratchGenerate ==
    /\ call.fn = "scratch_loop" /\ result.status = "generate"
    /\ \E o \in GenOutcomes, w \in SUBSET ScratchFiles :
         /\ o.file <=> "named" \in w
         /\ Returns([status |-> IF ExecuteFuzzD(o) THEN "work" ELSE "clean",
                     dirs |-> [result.dirs EXCEPT !["fuzz_d_generation"] = @ \cup w]])

\* 2)-19) the copies of the generated program, the compilers and the tracer write
\* into the other four directories; the iteration ends at one of its "continue"s
\* or after the summary.
ScratchWork ==
    /\ call.fn = "scratch_loop" /\ result.status = "work"
    /\ \E w \in [ScratchDirs \ {"fuzz_d_generation"} -> SUBSET ScratchFiles] :
         Returns([status |-> "clean",
                  dirs |-> [d \in ScratchDirs |->
                              IF d = "fuzz_d_generation" THEN result.dirs[d]
                              ELSE result.dirs[d] \cup w[d]]])

InitScratch ==
    /\ InitCommon
    /\ call \in [fn : {"scratch_loop"}, prog : {"campaign", "fuzz_d"}]
    /\ result = [status |-> "clean", dirs |-> [d \in ScratchDirs |-> {}]]
    /\ pc = [r \in Runners |-> "done"]
    /\ seed = [r \in Runners |-> NoSeed]
    /\ surviving = [r \in Runners |-> {}]
    /\ killDir = [m \in Mutants |-> NoRunner]
    /\ testsDir = [s \in Seeds |-> NoRunner]
    /\ baseline = [r \in Runners |-> "none"]
    /\ traces = [r \in Runners |-> {}]

NextScratch ==
    \/ ScratchClean
    \/ ScratchGenerate
    \/ ScratchWork

SpecScratch == InitScratch /\ [][NextScratch]_vars

\* ------------------------------------------------- reducer/reduce-program.py
\* Concurrent reducer processes (Runners) over the persisted failing programs
\* fuzzd_<seed> (Seeds).  The state is held in result: each process's position,
\* queue and current program, the owner of each output directory, the processes
\* that started the external reducer on each program, the reducer's outcome, and
\* the processes that found the output directory present.
ReducerOutcomes == {"reduced", "failed", "timeout"}

\* main: the queue is built from the failing programs found at startup.
InitReduce ==
    /\ InitCommon
    /\ call = [fn |-> "reduce_program"]
    /\ \E q \in [Runners -> UNION {Orderings(S) : S \in SUBSET Seeds}],
          d \in [Seeds -> {NoRunner, "earlier"}] :
         result = [pc |-> [r \in Runners |-> "pop"],
                   queue |-> q,
                   cur |-> [r \in Runners |-> NoSeed],
                   outDir |-> d,
                   invoked |-> [s \in Seeds |-> <<>>],
                   outcome |-> [s \in Seeds |-> "none"],
                   skippedBy |-> [s \in Seeds |-> {}]]
    /\ pc = [r \in Runners |-> "done"]
    /\ seed = [r \in Runners |-> NoSeed]
    /\ surviving = [r \in Runners |-> {}]
    /\ killDir = [m \in Mutants |-> NoRunner]
    /\ testsDir = [s \in Seeds |-> NoRunner]
    /\ baseline = [r \in Runners |-> "none"]
    /\ traces = [r \in Runners |-> {}]

\* main: while len(reduction_queue) > 0: popleft().
ReducePop(r) ==
    /\ call.fn = "reduce_program" /\ result.pc[r] = "pop"
    /\ IF result.queue[r] = <<>>
       THEN Returns([result EXCEPT !.pc[r] = "done"])
       ELSE Returns([result EXCEPT !.pc[r] = "reduce",
                                   !.cur[r] = Head(result.queue[r]),
                                   !.queue[r] = Tail(@)])

\* reduce_wrong_code_program up to Popen: reduced_output_dir.mkdir();
\* FileExistsError: return; else the interestingness script and the reducer start.
ReduceWrongCodeProgram(r) ==
    /\ call.fn = "reduce_program" /\ result.pc[r] = "reduce"
    /\ LET s == result.cur[r] IN
       IF MkdirSucceeds(result.outDir[s])
       THEN Returns([result EXCEPT !.pc[r] = "wait",
                                   !.outDir[s] = r,
                                   !.invoked[s] = Append(@, r)])
       ELSE Returns([result EXCEPT !.pc[r] = "pop",
                                   !.cur[r] = NoSeed,
                                   !.skippedBy[s] = @ \cup {r}])

\* reduction_process.wait(timeout): the reducer exits 0, exits non-zero, or times
\* out.  On a timeout SIGTERM goes to the process group of the reducer, which is
\* the group of this process (Popen without start_new_session): the process ends
\* there or, where the signal is held off, goes on with its queue.
ReduceWait(r) ==
    /\ call.fn = "reduce_program" /\ result.pc[r] = "wait"
    /\ \E o \in ReducerOutcomes, to \in {"pop", "terminated"} :
         /\ to = "terminated" => o = "timeout"
         /\ Returns([result EXCEPT !.pc[r] = to,
                                   !.cur[r] = NoSeed,
                                   !.outcome[result.cur[r]] = o])

NextReduce ==
    \/ \E r \in Runners : ReducePop(r)
    \/ \E r \in Runners : ReduceWrongCodeProgram(r)
    \/ \E r \in Runners : ReduceWait(r)

SpecReduce == InitReduce /\ [][NextReduce]_vars

\* ------------------------------------------------- auto-delete-compilations.py
\* The cleaner process watching <artifacts>/compilations (not recursively), and
\* campaign runners whose temp_dir is made there.  The state is held in result:
\* the time, each runner's position ("start": before the with statement, "loop":
\* inside the campaign loop, "ended": after the with block, "crashed": an
\* exception left the loop), the modification time of each runner's temp_dir
\* (NoDir: the directory does not exist), and whether a filesystem event of the
\* watched directory awaits its handler.  The modification time of temp_dir is
\* that of its last entry made or removed: the five mkdir calls at the start;
\* what the runner does inside the five subdirectories does not change it and is
\* no event of the watched directory.
NoDir == 0 - 1

\* DirectoryWatcher.delete_old_directories: the directories of the watched
\* directory whose age exceeds the retention time.
OldDirectories(dirs, now) ==
    {r \in DOMAIN dirs : dirs[r] # NoDir /\ now - dirs[r] > RetentionTime}

InitClean ==
    /\ InitCommon
    /\ call = [fn |-> "cleaner"]
    /\ result = [now |-> 0,
                 pc |-> [r \in Runners |-> "start"],
                 dir |-> [r \in Runners |-> NoDir],
                 iterations |-> [r \in Runners |-> 0],
                 event |-> FALSE]
    /\ pc = [r \in Runners |-> "done"]
    /\ seed = [r \in Runners |-> NoSeed]
    /\ surviving = [r \in Runners |-> {}]
    /\ killDir = [m \in Mutants |-> NoRunner]
    /\ testsDir = [s \in Seeds |-> NoRunner]
    /\ baseline = [r \in Runners |-> "none"]
    /\ traces = [r \in Runners |-> {}]

\* time.time() advances.
CleanTick ==
    /\ call.fn = "cleaner" /\ result.now < MaxCleanClock
    /\ Returns([result EXCEPT !.now = @ + 1])

\* tempfile.TemporaryDirectory(dir=compilation_artifact_dir) and the mkdir of the
\* five scratch subdirectories: a new directory in the watched directory.
CleanRunnerStart(r) ==
    /\ call.fn = "cleaner" /\ result.pc[r] = "start"
    /\ Returns([result EXCEPT !.pc[r] = "loop", !.dir[r] = result.now, !.event = TRUE])

\* One iteration of the campaign loop: step 0 lists and empties the five scratch
\* subdirectories (os.listdir raises FileNotFoundError when they are gone), the
\* later steps fill and read them.
CleanRunnerIteration(r) ==
    /\ call.fn = "cleaner" /\ result.pc[r] = "loop"
    /\ IF result.dir[r] = NoDir
       THEN Returns([result EXCEPT !.pc[r] = "crashed"])
       ELSE Returns([result EXCEPT !.iterations[r] = IF @ < 1 THEN @ + 1 ELSE @])

\* The loop ends (budget, no surviving mutant) and the with block removes
\* temp_dir: an event of the watched directory when the directory was there.
CleanRunnerEnd(r) ==
    /\ call.fn = "cleaner" /\ result.pc[r] = "loop"
    /\ Returns([result EXCEPT !.pc[r] = "ended", !.dir[r] = NoDir,
                              !.event = @ \/ result.dir[r] # NoDir])

\* DirectoryWatcher.on_any_event: delete_old_directories removes every old
\* directory with shutil.rmtree; each removal is an event of the watched directory.
DeleteOldDirectories ==
    /\ call.fn = "cleaner" /\ result.event
    /\ LET old == OldDirectories(result.dir, result.now)
       IN Returns([result EXCEPT !.dir = [r \in Runners |-> IF r \in old THEN NoDir ELSE @[r]],
                                 !.event = old # {}])

NextClean ==
    \/ CleanTick
    \/ \E r \in Runners : CleanRunnerStart(r)
    \/ \E r \in Runners : CleanRunnerIteration(r)
    \/ \E r \in Runners : CleanRunnerEnd(r)
    \/ DeleteOldDirectories

SpecClean == InitClean /\ [][NextClean]_vars

\* ------------------------------------------ claims on the campaign loop

\* C6: a program directory tests/fuzzd_<seed> exists only for a program that has
\* passed baseline validation on every backend and for which some backend left a
\* trace file (hist.validated records exactly those programs).
C6_DirOnlyAfterValidation ==
    \A s \in Seeds : testsDir[s] # NoRunner => s \in hist.validated

\* C7: a runner at the claiming step (baseline passed, a trace file present) whose
\* program identifier no other runner has claimed goes on to load the trace and test
\* the mutants; it does not fall back to the continuation check.
C7_ClaimProceeds ==
    [][\A r \in Runners :
         (pc[r] = "claim" /\ pc'[r] # "claim" /\ testsDir[seed[r]] \in {NoRunner, r})
            => pc'[r] = "load"]_vars

\* C8: when the generator times out, exits non-zero or leaves no generated.dfy, the
\* iteration ends at once: the runner is back at the continuation check, and the step
\* created no program directory, no failure-bucket entry, and started no compiler.
C8_GeneratorFailureAborts ==
    [][\A r \in Runners :
         (pc[r] = "generate" /\ pc'[r] # "generate" /\ hist'.gen[r] = "failed")
            => /\ pc'[r] = "check"
               /\ testsDir' = testsDir
               /\ errDir' = errDir
               /\ baseline' = baseline]_vars

\* C8 witness: a runner is at a new generator invocation after a failed one.
C8_Witness ==
    \E r \in Runners : pc[r] = "generate" /\ hist.gen[r] = "failed"

\* C9: with a budget of 0 hours no runner ever draws a seed or runs the generator,
\* nothing is created in the artifact tree, and the runner's only step is to leave.
C9_ZeroBudget ==
    budget = 0 =>
        /\ \A r \in Runners : pc[r] \in {"check", "done"} /\ hist.gen[r] = "none"
                              /\ seed[r] = NoSeed
        /\ \A s \in Seeds : testsDir[s] = NoRunner /\ summary[s] = NoSummary
                            /\ errDir["compile"][s] = "none" /\ errDir["wrong"][s] = "none"
        /\ \A m \in Mutants : killDir[m] = NoRunner /\ killInfo[m] = <<>>

\* C9 witness: a zero-budget campaign with live mutants has ended.
C9_Witness ==
    budget = 0 /\ \A r \in Runners : pc[r] = "done" /\ surviving[r] # {}

\* ------------------------------------------ claims on the per-mutant loop

\* C1: for every mutant and every interleaving of the runners that reach the kill
\* claim for it, exactly one runner's mkdir of the kill-claim directory succeeds;
\* every other runner gets FileExistsError, goes on with its loop, and neither
\* writes nor overwrites kill_info.json.
C1_ExactlyOneKiller ==
    /\ [](\A m \in Mutants :
            /\ Cardinality({r \in Runners : m \in hist.won[r]}) <= 1
            /\ (\E r \in Runners : m \in hist.tried[r])
                   => (\E r \in Runners : m \in hist.won[r] /\ killDir[m] = r)
            /\ Len(killInfo[m]) <= 1)
    /\ [][\A r \in Runners, m \in Mutants :
            (m \in hist.tried'[r] /\ m \notin hist.tried[r]) =>
                IF killDir[m] = NoRunner
                THEN /\ killDir'[m] = r
                     /\ Len(killInfo'[m]) = 1
                     /\ killInfo'[m][1].killed_by_test = seed[r]
                ELSE /\ killDir'[m] = killDir[m]
                     /\ killInfo'[m] = killInfo[m]
                     /\ pc'[r] = "mutant"]_vars

C1_Witness ==
    \E m \in Mutants : \E w, l \in Runners :
        /\ w # l
        /\ m \in hist.won[w]
        /\ m \in hist.tried[l] /\ m \notin hist.won[l]
        /\ Len(killInfo[m]) = 1

\* C2: the runner that loses the race for a kill-claim directory lists the mutant
\* under skipped_mutants, not under killed_mutants, in the summary of its program.
C2_LoserListsSkipped ==
    \A s \in Seeds, m \in Mutants :
        (summary[s].written /\ <<s, m>> \in hist.lost) =>
            /\ m \in Range(summary[s].skipped_mutants)
            /\ m \notin Range(summary[s].killed_mutants)

\* C3: a kill-claim directory that exists is never removed, no runner puts a
\* mutant back into its surviving set, and in each runner the surviving set only
\* shrinks and the killed set only grows.
C3_Monotonic ==
    [][/\ \A m \in Mutants : killDir[m] # NoRunner => killDir'[m] # NoRunner
       /\ \A r \in Runners : /\ surviving'[r] \subseteq surviving[r]
                             /\ killed[r] \subseteq killed'[r]]_vars

C3_Witness ==
    \E r \in Runners : \E m, n \in Mutants :
        /\ m # n
        /\ killDir[m] = r
        /\ {m, n} \subseteq killed[r]
        /\ surviving[r] \cap {m, n} = {}

\* C4 as stated: for every program with a test-summary.json, killed, skipped and
\* survived together are exactly the covered mutants.
C4_PartitionEqualsCovered ==
    \A s \in Seeds :
        summary[s].written =>
            Range(summary[s].killed_mutants) \cup Range(summary[s].skipped_mutants)
                \cup Range(summary[s].survived_mutants) = Range(summary[s].covered_mutants)

\* C4 amended: for every program with a test-summary.json, killed, skipped and
\* survived together are among the covered mutants, and are exactly the covered
\* mutants when the per-mutant loop was not cut short by the budget or by an
\* empty surviving set; a summary whose lists fall short of covered has
\* early_termination set.
C4_PartitionUnlessCutShort ==
    \A s \in Seeds :
        summary[s].written =>
            LET u == Range(summary[s].killed_mutants) \cup Range(summary[s].skipped_mutants)
                         \cup Range(summary[s].survived_mutants)
                c == Range(summary[s].covered_mutants)
            IN /\ u \subseteq c
               /\ s \notin hist.broke => u = c
               /\ u # c => summary[s].early_termination

C4_Witness ==
    \E s \in Seeds :
        /\ summary[s].written
        /\ s \notin hist.broke
        /\ Len(summary[s].covered_mutants) = NumMutants
        /\ summary[s].killed_mutants # <<>>
        /\ summary[s].survived_mutants # <<>>

\* C5: when the partition check fails at summarization, the process exits
\* non-zero without having written the test-summary.json of that program.
C5_AbortBeforeSummary ==
    [][\A r \in Runners :
          (pc[r] = "summary" /\ pc'[r] = "exit1") => ~summary'[seed[r]].written]_vars

\* C10: inside the per-mutant loop no mutated compile is started for a further
\* mutant once the budget is used up or the surviving set is empty.
C10_NoCompileWithoutWork ==
    [][\A r \in Runners :
          (pc[r] = "mutant" /\ pc'[r] = "testing") =>
              /\ clock' < budget * SecondsPerHour
              /\ surviving'[r] # {}]_vars


\* ------------------------------------- claims on the program directory

\* C11: a program directory belongs to the runner whose mkdir created it: of the
\* runners that drew the same seed at most one goes on with the program (and so at
\* most one can test mutants and write test-summary.json for it), and a runner whose
\* mkdir finds the directory present drops the seed and returns to the loop check.
C11_ProgramDirExclusive ==
    /\ [](\A s \in Seeds :
            LET at == {r \in Runners : seed[r] = s /\ pc[r] \notin {"generate", "promote"}}
            IN /\ Cardinality(at) <= 1
               /\ \A r \in at : testsDir[s] = r)
    /\ [][\A r \in Runners :
            (pc[r] = "promote" /\ pc'[r] # "promote" /\ testsDir[seed[r]] # NoRunner) =>
                /\ pc'[r] = "check"
                /\ testsDir' = testsDir
                /\ summary' = summary]_vars

C11_Witness ==
    \E o, l \in Runners : \E s \in Seeds :
        /\ o # l
        /\ testsDir[s] = o
        /\ <<l, s>> \in hist.dup
        /\ pc[l] = "check"

\* ------------------------------------- claims on baseline validation

\* C12: a program is at trace collection only if, with the unmodified compiler,
\* every backend compiled with exit code 0 and no timeout, every backend ran with
\* exit code 0 and no timeout, and all backends gave the same exit code, stdout
\* and stderr.
C12_TraceOnlyIfBaselineValid ==
    \A r \in Runners :
        pc[r] \in {"trace", "claim"} =>
            /\ DOMAIN hist.cres[r] = Backends
            /\ DOMAIN hist.eres[r] = Backends
            /\ \A b \in Backends :
                 /\ hist.cres[r][b].exit = 0 /\ ~hist.cres[r][b].timeout
                 /\ hist.eres[r][b].exit = 0 /\ ~hist.eres[r][b].timeout
            /\ \A b, c \in Backends :
                 /\ hist.eres[r][b].exit = hist.eres[r][c].exit
                 /\ hist.eres[r][b].stdout = hist.eres[r][c].stdout
                 /\ hist.eres[r][b].stderr = hist.eres[r][c].stderr

C12_Witness ==
    \E r \in Runners :
        /\ pc[r] = "trace"
        /\ \A b \in Backends : hist.eres[r][b].stdout = "b" /\ hist.eres[r][b].stderr = "a"

\* C13: every baseline failure (a compile error or timeout on some backend, a
\* non-zero or timed-out baseline run, a difference between the backends) ends the
\* iteration with the program persisted in its failure bucket.
C13_BaselineFailurePersisted ==
    [][\A r \in Runners :
          /\ (pc[r] = "compile" /\ pc'[r] \notin {"compile", "execute"}) =>
                 /\ pc'[r] = "check"
                 /\ errDir'["compile"][seed[r]] # "none"
          /\ (pc[r] = "execute" /\ pc'[r] \notin {"execute", "trace"}) =>
                 /\ pc'[r] = "check"
                 /\ errDir'["wrong"][seed[r]] # "none"]_vars

\* C14: a runner is past the traced compile only if some backend left a trace
\* file; when none did, the iteration ends there: no kill claim, no summary, and
\* the surviving and killed sets as they were.
C14_NoTraceDiscards ==
    /\ [](\A r \in Runners : pc[r] \in {"claim", "load"} => traces[r] # {})
    /\ [][\A r \in Runners :
            (pc[r] = "trace" /\ pc'[r] = "check") =>
                /\ seed'[r] = NoSeed
                /\ surviving' = surviving /\ killed' = killed
                /\ summary' = summary /\ killDir' = killDir /\ killInfo' = killInfo]_vars

C14_Witness ==
    \E r \in Runners : \E s \in Seeds :
        /\ s \in hist.notrace
        /\ testsDir[s] = r
        /\ pc[r] = "check"
        /\ ~summary[s].written

\* C15: when one backend left no trace file and another did, the missing trace
\* counts as an empty trace and the trace load does not fail.
C15_MissingTraceIsEmpty ==
    [][\A r \in Runners :
          (pc[r] = "load" /\ pc'[r] # "load" /\ traces[r] # Backends) =>
              pc'[r] # "crashed"]_vars

\* ------------------------------------------ claims on one mutant test

\* C16: a candidate whose kill-claim directory exists is recorded as skipped and
\* the loop goes to the next mutant: no mutated compile is started for it, and no
\* summary lists a skipped mutant as killed or survived too.
C16_SkipContinues ==
    /\ [][\A r \in Runners :
            (pc[r] = "mutant" /\ pc'[r] = "testing") => killDir[cur'[r]] = NoRunner]_vars
    /\ [](\A s \in Seeds :
            summary[s].written =>
                Range(summary[s].skipped_mutants)
                    \cap (Range(summary[s].killed_mutants)
                              \cup Range(summary[s].survived_mutants)) = {})

\* C17: every mutant that did not survive gets its kill-claim directory: after
\* steps 16-17 the directory killed_mutants/<key>-<id> exists.
C17_KillAlwaysClaimed ==
    (call.fn = "persist_kill" /\ result # NoResult) => result.claimed

\* C18: the kill status is the first match in the order compiler crash, compiler
\* timeout, missing artifact, runtime timeout, exit-code mismatch, stdout
\* mismatch, stderr mismatch, survived, each under its own label.
C18_FirstMatchOwnLabel ==
    (call.fn = "execute_mutated" /\ result # NoResult /\ ~call.h) =>
        result.status =
            IF call.c.exit # 0 THEN "KILLED_COMPILER_CRASHED"
            ELSE IF call.c.timeout THEN "KILLED_COMPILER_TIMEOUT"
            ELSE IF ~call.c.artifact THEN "KILLED_COMPILER_MISSING_EXECUTABLE_OUTPUT"
            ELSE IF call.e.timeout THEN "KILLED_RUNTIME_TIMEOUT"
            ELSE IF call.e.exit # call.d.exit THEN "KILLED_RUNTIME_EXITCODE_DIFFER"
            ELSE IF call.e.stdout # call.d.stdout THEN "KILLED_RUNTIME_STDOUT_DIFFER"
            ELSE IF call.e.stderr # call.d.stderr THEN "KILLED_RUNTIME_STDERR_DIFFER"
            ELSE "SURVIVED_HASH_DIFFER"

\* C19: when the mutated artifact has the hash of the baseline artifact, the
\* mutated-execution step reports survived and does not run the process.
C19_EqualHashNotRun ==
    (/\ result # NoResult
     /\ \/ call.fn = "mutant_execution" /\ call.h
        \/ call.fn = "execute_mutated" /\ call.h /\ ExecuteMutatedDafny(call.c) = "NONE")
        => /\ result.status \in SurvivedStatuses \cup {"SURVIVED"}
           /\ ~result.executed

\* C20: when the mutated compile crashes or times out, the mutant is classified
\* killed by the compiler and nothing is executed.
C20_CompilerKillAlone ==
    (/\ result # NoResult
     /\ \/ call.fn = "execute_mutated" /\ (call.c.timeout \/ call.c.exit # 0)
        \/ call.fn = "campaign_test"
             /\ \E b \in Backends : call.co[b].timeout \/ call.co[b].exit # 0)
        => /\ result.status \in {"KILLED_COMPILER_CRASHED", "KILLED_COMPILER_TIMEOUT"}
           /\ ~result.executed


\* ------------------------------------------ claims on the timeouts of a mutant test

\* C21: every timeout handed to a mutated compile or a mutated execution is the
\* larger of the configured timeout and three times the baseline time of the same
\* step (and backend); it is never below either of the two.
C21_TimeoutScaled ==
    /\ (call.fn = "execute_mutated" /\ result # NoResult) =>
          \A k \in DOMAIN result.limits :
             LET t == IF k = "compile" THEN call.ctime ELSE call.etime
                 c == IF k = "compile" THEN call.cfg ELSE call.ecfg
             IN /\ result.limits[k] \in {c, 3 * t}
                /\ result.limits[k] >= c
                /\ result.limits[k] >= 3 * t
    /\ (call.fn = "campaign_test" /\ result # NoResult) =>
          \A b \in Backends :
             /\ result.limits[b] \in {call.cfg, 3 * call.ctime[b]}
             /\ result.limits[b] >= call.cfg
             /\ result.limits[b] >= 3 * call.ctime[b]

\* C21 witness: a mutant was compiled and executed after a baseline whose compile
\* took longer than a third of the configured timeout and whose execution did not.
C21_Witness ==
    /\ call.fn = "execute_mutated" /\ result # NoResult
    /\ DOMAIN result.limits = {"compile", "execute"}
    /\ 3 * call.ctime > call.cfg /\ 3 * call.etime < call.ecfg
    /\ result.limits["compile"] = 3 * call.ctime
    /\ result.limits["execute"] = call.ecfg


\* ------------------------------------------ claims on the trace load

\* C22: the load of a backend's trace file reports the trace invalid exactly when
\* some line of the file is corrupt (not two fields, or a key without the activation
\* prefix), and the campaign skips the program exactly when some backend's file has
\* a corrupt line.
C22_LoadFailsClosed ==
    (call.fn = "load_traces" /\ result # NoResult) =>
        LET Corrupt(f) == \E i \in 1..Len(f) : Len(f[i]) # 2 \/ f[i][1] # "K"
        IN /\ \A b \in Backends :
                result.trace[b] = "NONE" <=> Corrupt(call.files[b])
           /\ result.status = "SKIPPED" <=> \E b \in Backends : Corrupt(call.files[b])

C24_RegistryCrossCheck ==
    (call.fn = "validated_mutant_registry" /\ result # NoResult) =>
        LET m == call.mutation
            t == call.tracer
            Ids(reg, v) == UNION {reg[f].mutations : f \in {g \in DOMAIN reg : reg[g].env_var = v}}
            same == /\ DOMAIN m = DOMAIN t
                    /\ {m[f].env_var : f \in DOMAIN m} = {t[f].env_var : f \in DOMAIN t}
                    /\ \A v \in RegistryEnvVars : Ids(m, v) = Ids(t, v)
        IN result.status = "RETURNED" <=> same


\* ------------------------------------------ claims on run_subprocess

\* C25: whatever the child does, a call of run_subprocess returns, with the timeout
\* flag FALSE (normal completion) or TRUE (timeout).
C25_AlwaysReturns ==
    <>(result.status = "returned" /\ result.timeout \in BOOLEAN)


\* ------------------------------------------ claims on the scratch directories

\* C26: whenever the generator is about to be invoked, the five scratch directories
\* of the runner are empty.
C26_ScratchEmptyAtGeneration ==
    (call.fn = "scratch_loop" /\ result.status = "generate") =>
        \A d \in ScratchDirs : result.dirs[d] = {}


\* ------------------------------------------ claims on the order of the mutant tests

\* C27: the mutants of a program are tested in ascending order: the mutant under
\* test is smaller than every mutant of the program still waiting to be tested.
C27_AscendingOrder ==
    \A r \in Runners :
       pc[r] = "testing" => \A i \in 1..Len(cand[r]) : cur[r] < cand[r][i]


\* ------------------------------------------ claims on a runner killed in its loop

\* C28: in every state of the artifact tree (the state a runner killed at that point
\* leaves behind) a kill-claim directory exists only for a mutant that some runner
\* saw killed, and a program directory exists only for a program that has passed
\* baseline validation and trace collection.
C28_NoFalseStateAfterKill ==
    /\ \A m \in Mutants :
          killDir[m] \in Runners => \E r \in Runners : m \in hist.tried[r]
    /\ \A s \in Seeds :
          testsDir[s] \in Runners => s \in hist.validated


\* ------------------------------------------ claims on the reducer

\* C29: the external reducer is started at most once on each program, and only by
\* the process whose mkdir of the program's output directory succeeded; a program
\* whose reduction timed out or failed is not started again.
C29_ReducedAtMostOnce ==
    call.fn = "reduce_program" =>
        \A s \in Seeds :
           /\ Len(result.invoked[s]) <= 1
           /\ \A i \in 1..Len(result.invoked[s]) : result.invoked[s][i] = result.outDir[s]
           /\ result.outDir[s] = "earlier" => result.invoked[s] = <<>>

\* C29 witness: one process started the reducer on a program, the reducer timed out
\* or failed, and the other process found the output directory and went on.
C29_Witness ==
    /\ call.fn = "reduce_program"
    /\ \E s \in Seeds, a, b \in Runners :
         /\ a # b
         /\ result.invoked[s] = <<a>>
         /\ result.outcome[s] \in {"failed", "timeout"}
         /\ b \in result.skippedBy[s]
         /\ result.pc[b] = "done"


\* ------------------------------------------ claims on termination

\* C30: every run of the campaign ends by leaving the loop at the continuation
\* check: each path of an iteration leads back to the check, and the check ends the
\* loop once the budget is used up or no mutant survives.
C30_EndsAtContinuationCheck ==
    <>(\A r \in Runners : pc[r] = "done")


\* ------------------------------------------ claims on the end of a campaign

C32_ExitCodes ==
    \A r \in Runners :
       /\ pc[r] = "done" => ProcessExitCode(pc[r]) = 0
       /\ pc[r] \in {"exit1", "crashed"} => ProcessExitCode(pc[r]) = 1


\* ------------------------------------------ claims on the trace-line parser

\* C33: the parse of a line returns the pair (text before the delimiter, text after
\* it) when the line has exactly one delimiter and begins with the activation-key
\* prefix, and returns the failure value None for every other line.
C33_ParseLine ==
    (call.fn = "parse_recorded_trace" /\ result # NoResult) =>
        LET l == call.line
            colons == {i \in 1..Len(l) : l[i] = ":"}
        IN /\ result.status = "RETURNED"
           /\ IF Cardinality(colons) = 1 /\ l[1] = "K"
              THEN \E i \in colons :
                      result.value = <<SubSeq(l, 1, i - 1), SubSeq(l, i + 1, Len(l))>>
              ELSE result.value = None

\* C33 witness: a pair came back for a key-and-id line.
C33_Witness ==
    /\ call.fn = "parse_recorded_trace"
    /\ call.line = <<"K", "X", ":", "1">>
    /\ result # NoResult
    /\ result.value = <<(<<"K", "X">>), (<<"1">>)>>


\* ------------------------------------------ claims on the kill-info record

\* C34: the overall status of a kill-info record is the per-backend status that
\* comes first in the order compiler crash, compiler timeout, missing artifact,
\* runtime timeout, exit code, stdout, stderr; the record lists exactly the backends
\* whose status is not survived, and at least one.
C34_OverallStatusIsStrongest ==
    (call.fn = "persist_kill" /\ result # NoResult /\ result.mkdir /\ ~call.exists) =>
        LET order == <<"KILLED_COMPILER_CRASHED", "KILLED_COMPILER_TIMEOUT",
                       "KILLED_COMPILER_MISSING_EXECUTABLE_OUTPUT",
                       "KILLED_RUNTIME_TIMEOUT", "KILLED_RUNTIME_EXITCODE_DIFFER",
                       "KILLED_RUNTIME_STDOUT_DIFFER", "KILLED_RUNTIME_STDERR_DIFFER">>
            present == {i \in 1..Len(order) : \E b \in Backends : call.st[b] = order[i]}
            first == CHOOSE i \in present : \A j \in present : i <= j
        IN /\ result.status = order[first]
           /\ result.failed_target_backends = {b \in Backends : call.st[b] # "SURVIVED"}
           /\ result.failed_target_backends # {}


\* ------------------------------------------ claims on the lists and sets of a runner

\* C35: the skipped, killed and survived lists of the program a runner is testing
\* are pairwise disjoint, and none holds a mutant twice.
C35_ListsDisjoint ==
    \A r \in Runners :
       LET all == skippedL[r] \o killedL[r] \o survivedL[r]
       IN \A i, j \in 1..Len(all) : i # j => all[i] # all[j]


\* C36: for every runner the surviving and the killed set are disjoint in every
\* state, and no step changes their union: it stays the initial surviving set,
\* so |surviving| + |killed|, the logged total, is constant.
C36_TotalConsidered ==
    /\ [](\A r \in Runners : surviving[r] \cap killed[r] = {})
    /\ [][\A r \in Runners :
            /\ surviving'[r] \cup killed'[r] = surviving[r] \cup killed[r]
            /\ Cardinality(surviving'[r]) + Cardinality(killed'[r])
                   = Cardinality(surviving[r]) + Cardinality(killed[r])]_vars

\* Both ways of moving a mutant have acted for one runner: one mutant was moved
\* because its kill claim was found, another because its test killed it.
C36_Witness ==
    \E r \in Runners :
       /\ skippedL[r] # <<>> /\ killedL[r] # <<>>
       /\ Cardinality(killed[r]) = 2


\* C37: whenever the per-mutant loop moves a mutant out of the surviving set, on a
\* found kill claim or on a test that did not survive, the mutant is a member of
\* the set, whatever the trace covers: the removal never raises.
C37_RemovalNeverFails ==
    [][\A r \in Runners :
          /\ (/\ pc[r] = "mutant" /\ pc'[r] # "mutant" /\ cand[r] # <<>>
              /\ TimeBudgetExists(clock, budget) /\ surviving[r] # {}
              /\ killDir[Head(cand[r])] # NoRunner)
                => /\ Head(cand[r]) \in surviving[r]
                   /\ surviving'[r] = surviving[r] \ {Head(cand[r])}
          /\ (/\ pc[r] = "testing" /\ pc'[r] # "testing"
              /\ survivedL'[r] = survivedL[r])
                => /\ cur[r] \in surviving[r]
                   /\ surviving'[r] = surviving[r] \ {cur[r]}]_vars


\* C38: a step that ends a runner's iteration before per-mutant testing (failed
\* generation, program directory already there, known bug or failure of the
\* baseline, no trace file, program claim refused, trace given up) leaves every
\* runner's surviving and killed sets and all kill claims as they were; and a
\* program claim that meets an existing directory is such a step.
C38_AbortLeavesSets ==
    [][\A r \in Runners :
          /\ (/\ pc[r] \in {"generate", "promote", "compile", "execute", "trace", "claim", "load"}
              /\ pc'[r] \in {"check", "crashed"})
                => /\ surviving' = surviving /\ killed' = killed
                   /\ killDir' = killDir /\ killInfo' = killInfo
                   /\ seed'[r] = NoSeed
          /\ (/\ pc[r] = "claim" /\ pc'[r] # "claim"
              /\ testsDir[seed[r]] # NoRunner)
                => pc'[r] = "check"]_vars

\* A runner is back at the loop head after its program claim was refused, and a
\* baseline failure has ended an iteration as well.
C38_Witness ==
    \E r \in Runners : \E s, s2 \in Seeds :
       /\ pc[r] = "check" /\ seed[r] = NoSeed
       /\ s \in hist.validated /\ testsDir[s] = r
       /\ errDir["wrong"][s2] # "none"
       /\ surviving[r] # {}


\* ------------------------------------------ claims on the known-defect list

\* C39: when the baseline compile of some backend failed with an output that
\* holds one of that backend's known error substrings, the verdict is KNOWN_BUG:
\* the iteration is discarded and the program is in no failure bucket, also when
\* another backend failed with an error that is not on the list.
C39_KnownBugTakesPrecedence ==
    (/\ call.fn = "baseline_compile" /\ result # NoResult
     /\ \E b \in call.known : call.co[b].exit # 0)
        => /\ result.verdict = "KNOWN_BUG"
           /\ result.to = "check"
           /\ ~result.persisted


\* ------------------------------------------ claims on the compilation cleaner

\* C40: the cleaner never removes the temp_dir of a runner that is still in its
\* campaign loop: whenever such a runner empties, fills or reads its scratch
\* subdirectories they exist, and no runner ends on the missing directory.
C40_ScratchOutlivesCleaner ==
    (call.fn = "cleaner") =>
        \A r \in Runners :
           /\ result.pc[r] = "loop" => result.dir[r] # NoDir
           /\ result.pc[r] # "crashed"

====
